---- MODULE Spec2Model ----
(***************************************************************************)
(* Model of function_app.py: the timer-triggered run ZameenScraper (the    *)
(* orchestrator: sink initialisation, the city loop, the final metadata)   *)
(* and scrap (the per-city pagination loop with its consecutive-error      *)
(* breaker and the per-listing extraction).                                *)
(*                                                                         *)
(* The web site and the blob store are the environment: every fetch draws  *)
(* its outcome, and every upload its success or failure, with \E.          *)
(* Wall-clock values (timestamps, durations) are left out of the state.    *)
(***************************************************************************)
EXTENDS Integers, Sequences, FiniteSets, TLC

(* ------------------------------ bounds --------------------------------- *)

\* MAX_PAGES is read from the environment; the model draws it from 0..MaxPagesBound.
MaxPagesBound == 5

\* The run iterates the first NumCities entries of the hard-coded city list.
NumCities == 3

\* The site serves at most MaxListings extractable listings during one run.
MaxListings == 3

(* --------------------------- program constants ------------------------- *)

\* Line 331.
max_consecutive_errors == 3

AllCities == <<"Lahore", "Karachi", "Islamabad", "Multan", "Faisalabad", "Peshawar",
               "Quetta", "Rawalpindi", "Murree", "Gujranwala", "Attock">>

cities == SubSeq(AllCities, 1, IF NumCities < Len(AllCities) THEN NumCities ELSE Len(AllCities))

\* SCRAPER_DELAY is read from the environment as a float; time.sleep raises
\* ValueError on a negative length. -1 stands for any negative delay, 1 for any
\* non-negative one.
DelayValues == {0 - 1, 1}

(* ------------------------------ the site ------------------------------- *)

\* A listing node (an <li> of the result list) as the selectors of scrap see it:
\* whether each select_one finds its element.
Good == [price |-> TRUE, location |-> TRUE, size |-> TRUE]

NoPrice == [price |-> FALSE, location |-> TRUE, size |-> TRUE]

\* Price found, primary size selector empty and no location element: the
\* fallback dereferences location.parent with location = None.
Broken == [price |-> TRUE, location |-> FALSE, size |-> FALSE]

\* The node lists a page with at least one listing node can have.
PageContents == { <<Good>>, <<Good, Good>>, <<Broken, Good>>,
                  <<NoPrice>>, <<Broken>>, <<Broken, NoPrice>> }

FailureKinds == {"TransportError", "InvalidResponse", "UnexpectedError"}

\* The nodes of a page that carry a listing scrap can extract: a price element,
\* and a size element or a location element to look the size up from.
Extractable(node) == node.price /\ (node.size \/ node.location)

\* What one fetch can produce.
PageOutcomes ==
    [kind : FailureKinds \cup {"Empty"}, nodes : {<< >>}]
        \cup [kind : {"Parsed"}, nodes : PageContents]

\* The history keeps, of a fetch, whether it failed, found no node or was parsed.
ResultOf(kind) == IF kind \in FailureKinds THEN "failed" ELSE kind

NoOutcome == [kind |-> "none", nodes |-> << >>]

(* ------------------------------- state --------------------------------- *)

VARIABLES
    pc,                 \* position of the run
    connection_string,  \* environment: TRUE iff ZameenBlobStorage is set
    max_pages,          \* environment: MAX_PAGES
    scraper_delay,      \* environment: SCRAPER_DELAY
    run_metadata,       \* the run_metadata dict (status, and the totals once set)
    blobs,              \* the container: blob name -> what was uploaded
    city,               \* index of the city of the current loop iteration
    total_listings,
    city_stats,         \* city name -> stats entry, for the cities recorded so far
    city_data,          \* the value scrap returned
    page_number,        \* scrap: the loop variable
    consecutive_errors, \* scrap
    house_info,         \* scrap: the accumulator
    outcome,            \* what the last loop iteration of scrap met
    io,                 \* the sleeps and the GET of the last loop iteration, in order
    log,                \* history: one entry per fetch of the current scrap call
    served,             \* history: the number of listings extracted during the run
    exc,                \* history: the exception raised while the current city was processed
    init_failure,       \* history: how sink initialisation failed, or "none"
    call,               \* the call of a field function under evaluation, or NoCall
    ret,                \* how that call ended: the value returned or the exception raised
    warnings,           \* the logging.warning events that call emitted
    caught              \* history: the exceptions that call caught

vars == <<pc, connection_string, max_pages, scraper_delay, run_metadata, blobs, city,
          total_listings, city_stats, city_data, page_number, consecutive_errors,
          house_info, outcome, io, log, served, exc, init_failure,
          call, ret, warnings, caught>>

envVars == <<connection_string, max_pages, scraper_delay>>

scrapVars == <<page_number, consecutive_errors, house_info, outcome, io, log, served>>

runVars == <<run_metadata, blobs, city, total_listings, city_stats, city_data>>

textVars == <<call, ret, warnings, caught>>

EmptyMap == [x \in {} |-> 0]

\* No field function is under evaluation.
NoCall == [fn |-> "none"]

\* The call under evaluation has not ended.
Pending == [kind |-> "pending"]

Init ==
    /\ pc = "start"
    /\ connection_string \in BOOLEAN
    /\ max_pages \in 0..MaxPagesBound
    /\ scraper_delay \in DelayValues
    /\ run_metadata = [status |-> "none"]
    /\ blobs = EmptyMap
    /\ city = 0
    /\ total_listings = 0
    /\ city_stats = EmptyMap
    /\ city_data = << >>
    /\ page_number = 0
    /\ consecutive_errors = 0
    /\ house_info = << >>
    /\ outcome = NoOutcome
    /\ io = << >>
    /\ log = << >>
    /\ served = 0
    /\ exc = "none"
    /\ init_failure = "none"
    /\ call = NoCall
    /\ ret = Pending
    /\ warnings = << >>
    /\ caught = << >>

(* ------------------------ run start (lines 29-96) ---------------------- *)

\* Lines 30-34: no connection string: log an error and return.
NoConnectionString ==
    /\ pc = "start"
    /\ ~connection_string
    /\ pc' = "returned"
    /\ init_failure' = "no_connection_string"
    /\ UNCHANGED <<envVars, textVars, runVars, scrapVars, exc>>

\* Lines 41-56: build the clients. A failure of from_connection_string or
\* get_container_client returns; a failure of create_container is logged and ignored.
Connect ==
    /\ pc = "start"
    /\ connection_string
    /\ \E client \in {"ok", "raises"}, container \in {"created", "raises"} :
          IF client = "raises"
            THEN /\ pc' = "returned"
                 /\ init_failure' = "client"
            ELSE /\ pc' = "connected"
                 /\ UNCHANGED init_failure
    /\ UNCHANGED <<envVars, textVars, runVars, scrapVars, exc>>

\* The uploads of the run start wrapped in a handler that logs and goes on.
AfterRunStartUploads_swallow(up) == "city_loop"

\* Lines 84-93: where the run goes after the two uploads of the run start.
\* Neither upload is inside a try: an exception leaves ZameenScraper.
AfterRunStartUploads(up) == IF up = "ok" THEN "city_loop" ELSE "raised"

\* Lines 74-96: build run_metadata, upload it and the CSV header.
UploadRunStart ==
    /\ pc = "connected"
    /\ run_metadata' = [status |-> "in_progress"]
    /\ \E up \in {"ok", "metadata_raises", "header_raises"} :
          /\ pc' = AfterRunStartUploads(up)
          /\ init_failure' = CASE up = "metadata_raises" -> "metadata"
                               [] up = "header_raises" -> "header"
                               [] OTHER -> init_failure
          /\ blobs' = CASE up = "metadata_raises" -> blobs
                        [] up = "header_raises" ->
                             ("run_metadata.json" :> "in_progress") @@ blobs
                        [] OTHER ->
                             ("header.csv" :> "header")
                               @@ ("run_metadata.json" :> "in_progress") @@ blobs
          /\ city' = IF pc' = "city_loop" THEN 1 ELSE city
    /\ total_listings' = 0
    /\ city_stats' = EmptyMap
    /\ UNCHANGED <<envVars, textVars, city_data, scrapVars, exc>>

(* ----------------------------- scrap ----------------------------------- *)

\* Lines 387-389: with no price the node is skipped before anything can raise;
\* with a price and no primary size element, location.parent is evaluated, which
\* raises AttributeError when there is no location element.
ListingRaises(node) == node.price /\ ~node.size /\ ~node.location

\* The extraction without the try of lines 378-412 around one node: the first
\* node that raises ends the processing of the page.
RECURSIVE ProcessHouses_abortPage(_, _, _, _)
ProcessHouses_abortPage(acc, nodes, page, i) ==
    IF i > Len(nodes) \/ ListingRaises(nodes[i]) THEN acc
    ELSE ProcessHouses_abortPage(
             acc \o (IF nodes[i].price THEN << [page |-> page, node |-> i] >> ELSE << >>),
             nodes, page, i + 1)

\* Lines 378-412, one listing node: the one-element sequence of its record, or
\* << >> when the node has no price element (line 386) or the extraction raises
\* and is caught on line 409. A record is named by the page and the position
\* of its node.
ExtractListing(node, page, i) ==
    IF ~node.price THEN << >>
    ELSE IF ListingRaises(node) THEN << >>
    ELSE << [page |-> page, node |-> i] >>

\* The loop over house_list inserting each record at the front.
RECURSIVE ProcessHouses_prepend(_, _, _, _)
ProcessHouses_prepend(acc, nodes, page, i) ==
    IF i > Len(nodes) THEN acc
    ELSE ProcessHouses_prepend(ExtractListing(nodes[i], page, i) \o acc, nodes, page, i + 1)

\* Lines 377-412: the loop over house_list, appending to the accumulator.
RECURSIVE ProcessHouses(_, _, _, _)
ProcessHouses(acc, nodes, page, i) ==
    IF i > Len(nodes) THEN acc
    ELSE ProcessHouses(acc \o ExtractListing(nodes[i], page, i), nodes, page, i + 1)

\* The range one page too long.
InRange_offByOne(last_page, pages_range) == last_page < pages_range + 1

\* Line 333: range(1, pages_range + 1) has a page after the last one iterated.
InRange(last_page, pages_range) == last_page < pages_range

\* The breaker check with > for >=.
BreakerOpen_strict(errors) == errors > max_consecutive_errors

\* Line 335.
BreakerOpen(errors) == errors >= max_consecutive_errors

\* The handlers issuing the request before any sleep.
OnRequestError_noDelay(errors, acc) ==
    [consecutive_errors |-> errors + 1, house_info |-> acc,
     io |-> <<"get", "penalty">>, stop |-> FALSE]

\* The handlers counting a failed request twice.
OnRequestError_plusTwo(errors, acc) ==
    [consecutive_errors |-> errors + 2, house_info |-> acc,
     io |-> <<"delay", "get", "penalty">>, stop |-> FALSE]

\* Lines 423-428 and 429-433: the request (or anything after it) raised.
OnRequestError(errors, acc) ==
    [consecutive_errors |-> errors + 1, house_info |-> acc,
     io |-> <<"delay", "get", "penalty">>, stop |-> FALSE]

\* An invalid response followed by the penalty sleep of the handlers.
OnInvalidResponse_withPenalty(errors, acc) ==
    [consecutive_errors |-> errors + 1, house_info |-> acc,
     io |-> <<"delay", "get", "penalty">>, stop |-> FALSE]

\* Lines 354-357: the body is empty or has no "<html".
OnInvalidResponse(errors, acc) ==
    [consecutive_errors |-> errors + 1, house_info |-> acc,
     io |-> <<"delay", "get">>, stop |-> FALSE]

\* An empty page counted as a failed fetch, the loop going on.
OnEmpty_asError(errors, acc) ==
    [consecutive_errors |-> errors + 1, house_info |-> acc,
     io |-> <<"delay", "get">>, stop |-> FALSE]

\* Lines 361-371: neither selector finds a listing node.
OnEmpty(errors, acc) ==
    [consecutive_errors |-> errors, house_info |-> acc,
     io |-> <<"delay", "get">>, stop |-> TRUE]

\* The loop without the check of lines 418-421.
NoNewListings_never(prev_len, new_len) == FALSE

\* Lines 418-421.
NoNewListings(prev_len, new_len) == new_len = prev_len

\* The processing of a page without the reset of line 415.
OnParsed_keepCounter(errors, acc, nodes, page) ==
    LET new == ProcessHouses(acc, nodes, page, 1)
    IN  [consecutive_errors |-> errors, house_info |-> new,
         io |-> <<"delay", "get">>, stop |-> NoNewListings(Len(acc), Len(new))]

\* Lines 373-421: the listing nodes are processed.
OnParsed(errors, acc, nodes, page) ==
    LET new == ProcessHouses(acc, nodes, page, 1)
    IN  [consecutive_errors |-> 0, house_info |-> new,
         io |-> <<"delay", "get">>, stop |-> NoNewListings(Len(acc), Len(new))]

\* Lines 343-433: the body of one iteration, by the outcome of its fetch.
PageStep(o, errors, acc, page) ==
    CASE o.kind \in {"TransportError", "UnexpectedError"} -> OnRequestError(errors, acc)
      [] o.kind = "InvalidResponse" -> OnInvalidResponse(errors, acc)
      [] o.kind = "Empty" -> OnEmpty(errors, acc)
      [] OTHER -> OnParsed(errors, acc, o.nodes, page)

\* Lines 99-110 and 323-331: the city loop takes the next city and calls scrap.
BeginCity ==
    /\ pc = "city_loop"
    /\ city <= Len(cities)
    /\ pc' = "scrap"
    /\ house_info' = << >>
    /\ consecutive_errors' = 0
    /\ page_number' = 0
    /\ outcome' = NoOutcome
    /\ io' = << >>
    /\ log' = << >>
    /\ exc' = "none"
    /\ city_data' = << >>
    /\ UNCHANGED <<envVars, textVars, run_metadata, blobs, city, total_listings, city_stats, served,
                   init_failure>>

\* Lines 333-433, one iteration of the page loop that passes the breaker check.
ScrapPage ==
    /\ pc = "scrap"
    /\ InRange(page_number, max_pages)
    /\ ~BreakerOpen(consecutive_errors)
    /\ page_number' = page_number + 1
    /\ IF scraper_delay < 0
         THEN \* line 346 raises ValueError, caught on line 429; the sleep of
              \* line 432 raises again and the exception leaves scrap
              /\ consecutive_errors' = consecutive_errors + 1
              /\ outcome' = [kind |-> "SleepError", nodes |-> << >>]
              /\ io' = << >>
              /\ exc' = "ValueError"
              /\ pc' = "city_except"
              /\ UNCHANGED <<house_info, log, served>>
         ELSE \E o \in PageOutcomes :
              LET n == Cardinality({i \in 1..Len(o.nodes) : Extractable(o.nodes[i])})
                  r == PageStep(o, consecutive_errors, house_info, page_number + 1)
              IN  /\ served + n <= MaxListings
                  /\ served' = served + n
                  /\ outcome' = o
                  /\ log' = Append(log, [page |-> page_number + 1,
                                         result |-> ResultOf(o.kind), nodes |-> o.nodes])
                  /\ consecutive_errors' = r.consecutive_errors
                  /\ house_info' = r.house_info
                  /\ io' = r.io
                  /\ pc' = IF r.stop THEN "scrap_return" ELSE "scrap"
                  /\ UNCHANGED exc
    /\ UNCHANGED <<envVars, textVars, runVars, init_failure>>

\* Lines 335-338: the breaker check at the head of an iteration breaks the loop.
ScrapBreaker ==
    /\ pc = "scrap"
    /\ InRange(page_number, max_pages)
    /\ BreakerOpen(consecutive_errors)
    /\ page_number' = page_number + 1
    /\ pc' = "scrap_return"
    /\ UNCHANGED <<envVars, textVars, runVars, consecutive_errors, house_info, outcome, io, log,
                   served, exc, init_failure>>

\* Line 333: range(1, pages_range + 1) is exhausted.
ScrapExhausted ==
    /\ pc = "scrap"
    /\ ~InRange(page_number, max_pages)
    /\ pc' = "scrap_return"
    /\ UNCHANGED <<envVars, textVars, runVars, scrapVars, exc, init_failure>>

\* Lines 435-437 and 106: scrap returns the accumulator to the city loop.
ScrapReturn ==
    /\ pc = "scrap_return"
    /\ city_data' = house_info
    /\ pc' = "city_result"
    /\ UNCHANGED <<envVars, textVars, run_metadata, blobs, city, total_listings, city_stats,
                   scrapVars, exc, init_failure>>

(* ------------------- city loop body (lines 112-169) -------------------- *)

CityName == cities[city]

JsonBlob(name) == name \o "_data.json"

CsvBlob(name) == name \o "_data.csv"

\* Lines 115-119.
NoDataStats == [status |-> "no_data", listings_count |-> 0]

\* The success entry without the count.
SuccessStats_zeroCount(listings_count) == [status |-> "success", listings_count |-> 0]

\* Lines 154-158.
SuccessStats(listings_count) == [status |-> "success", listings_count |-> listings_count]

\* The except clause recording the city as one without data.
ErrorStats_asNoData(e) == [status |-> "no_data", listings_count |-> 0]

\* Lines 165-169.
ErrorStats(e) == [status |-> "error", error_message |-> e]

\* Lines 122-124.
CountListings(total, data) == total + Len(data)

\* Lines 112-161: the try body after scrap returned. A payload blob is
\* modelled by the number of listings serialised into it.
HandleCityData ==
    /\ pc = "city_result"
    /\ IF city_data = << >>
         THEN /\ city_stats' = (CityName :> NoDataStats) @@ city_stats
              /\ city' = city + 1
              /\ pc' = "city_loop"
              /\ UNCHANGED <<total_listings, blobs, exc>>
         ELSE /\ total_listings' = CountListings(total_listings, city_data)
              /\ \E up \in {"ok", "json_raises", "csv_raises"} :
                    CASE up = "json_raises" ->
                           /\ exc' = "SinkError"
                           /\ pc' = "city_except"
                           /\ UNCHANGED <<blobs, city_stats, city>>
                      [] up = "csv_raises" ->
                           /\ exc' = "SinkError"
                           /\ pc' = "city_except"
                           /\ blobs' = (JsonBlob(CityName) :> Len(city_data)) @@ blobs
                           /\ UNCHANGED <<city_stats, city>>
                      [] OTHER ->
                           /\ blobs' = (CsvBlob(CityName) :> Len(city_data))
                                         @@ (JsonBlob(CityName) :> Len(city_data)) @@ blobs
                           /\ city_stats' = (CityName :> SuccessStats(Len(city_data)))
                                              @@ city_stats
                           /\ city' = city + 1
                           /\ pc' = "city_loop"
                           /\ UNCHANGED exc
    /\ UNCHANGED <<envVars, textVars, run_metadata, city_data, scrapVars, init_failure>>

\* The city loop without its except clause: the exception leaves ZameenScraper.
AfterCityError_abort == "raised"

\* Lines 163-169: where the run goes once the except clause has recorded the error.
AfterCityError == "city_loop"

\* Lines 163-169: the except clause of the city loop.
CityExcept ==
    /\ pc = "city_except"
    /\ city_stats' = (CityName :> ErrorStats(exc)) @@ city_stats
    /\ city' = city + 1
    /\ pc' = AfterCityError
    /\ UNCHANGED <<envVars, textVars, run_metadata, blobs, total_listings, city_data, scrapVars,
                   exc, init_failure>>

(* ---------------------- run end (lines 171-183) ------------------------ *)

\* The run end that uploads the totals and leaves the status as it was.
FinishRun_statusUnchanged ==
    /\ pc = "city_loop"
    /\ city > Len(cities)
    /\ run_metadata' = [status |-> run_metadata.status, total_listings |-> total_listings,
                        city_stats |-> city_stats]
    /\ \E up \in {"ok", "raises"} :
          IF up = "raises"
            THEN /\ pc' = "raised"
                 /\ UNCHANGED blobs
            ELSE /\ pc' = "done"
                 /\ blobs' = ("run_metadata.json" :> run_metadata.status) @@ blobs
    /\ UNCHANGED <<envVars, textVars, city, total_listings, city_stats, city_data, scrapVars,
                   exc, init_failure>>

\* Lines 171-183: complete run_metadata and upload it; the upload is not inside a try.
FinishRun ==
    /\ pc = "city_loop"
    /\ city > Len(cities)
    /\ run_metadata' = [status |-> "completed", total_listings |-> total_listings,
                        city_stats |-> city_stats]
    /\ \E up \in {"ok", "raises"} :
          IF up = "raises"
            THEN /\ pc' = "raised"
                 /\ UNCHANGED blobs
            ELSE /\ pc' = "done"
                 /\ blobs' = ("run_metadata.json" :> "completed") @@ blobs
    /\ UNCHANGED <<envVars, textVars, city, total_listings, city_stats, city_data, scrapVars,
                   exc, init_failure>>

Next ==
    \/ NoConnectionString
    \/ Connect
    \/ UploadRunStart
    \/ BeginCity
    \/ ScrapPage
    \/ ScrapBreaker
    \/ ScrapExhausted
    \/ ScrapReturn
    \/ HandleCityData
    \/ CityExcept
    \/ FinishRun

Spec == Init /\ [][Next]_vars

(* ------------- field functions: texts and numbers (185-273) ------------ *)

\* The longest numeric part of the texts handed to the field functions.
MaxPrefixLen == 3

\* A text is a sequence of one-character strings. The characters the modelled
\* texts are built from, beside the letters of the unit names.
InputChars == {"0", "1", "5", "7", "8", ".", ",", " ", "x"}

DigitValue ==
    ("0" :> 0) @@ ("1" :> 1) @@ ("2" :> 2) @@ ("3" :> 3) @@ ("4" :> 4)
        @@ ("5" :> 5) @@ ("6" :> 6) @@ ("7" :> 7) @@ ("8" :> 8) @@ ("9" :> 9)

IsDigit(c) == c \in DOMAIN DigitValue

IsPoint(c) == c = "."

IsNotComma(c) == c # ","

RECURSIVE lstrip(_)
lstrip(s) == IF s # << >> /\ Head(s) = " " THEN lstrip(Tail(s)) ELSE s

RECURSIVE rstrip(_)
rstrip(s) ==
    IF s # << >> /\ s[Len(s)] = " " THEN rstrip(SubSeq(s, 1, Len(s) - 1)) ELSE s

\* str.strip(): the space is the only whitespace of the modelled texts.
strip(s) == rstrip(lstrip(s))

\* str.endswith(suffix).
endswith(s, suffix) ==
    /\ Len(s) >= Len(suffix)
    /\ SubSeq(s, Len(s) - Len(suffix) + 1, Len(s)) = suffix

\* s[:-n], for a text of at least n characters.
DropLast(s, n) == SubSeq(s, 1, Len(s) - n)

\* str.replace(",", "").
remove_commas(s) == SelectSeq(s, IsNotComma)

RECURSIVE DigitsToInt(_)
DigitsToInt(s) ==
    IF s = << >> THEN 0
    ELSE 10 * DigitsToInt(SubSeq(s, 1, Len(s) - 1)) + DigitValue[s[Len(s)]]

RECURSIVE Pow10(_)
Pow10(n) == IF n = 0 THEN 1 ELSE 10 * Pow10(n - 1)

\* An integer result mant * 10^exp, with mant not divisible by ten: the prices
\* (up to thousands of Arab) exceed 32 bits, and Python integers are unbounded.
RECURSIVE Number(_, _)
Number(mant, exp) ==
    IF mant = 0 THEN [mant |-> 0, exp |-> 0]
    ELSE IF mant % 10 = 0 THEN Number(mant \div 10, exp + 1)
    ELSE [mant |-> mant, exp |-> exp]

Zero == Number(0, 0)

\* The decimal digits / 10^decimals without trailing zeros of the fraction:
\* "8.70" and "8.7" denote the same double.
RECURSIVE Decimal(_, _)
Decimal(digits, decimals) ==
    IF decimals > 0 /\ digits % 10 = 0 THEN Decimal(digits \div 10, decimals - 1)
    ELSE [kind |-> "finite", digits |-> digits, decimals |-> decimals]

\* float(s), for the modelled texts: surrounding whitespace is ignored; digits
\* with at most one point and at least one digit give a finite value, "inf" and
\* "nan" the two non-finite ones, everything else raises ValueError.
float(s) ==
    LET t == strip(s)
        digs == SelectSeq(t, IsDigit)
        frac == IF \E i \in 1..Len(t) : IsPoint(t[i])
                  THEN Len(t) - (CHOOSE i \in 1..Len(t) : IsPoint(t[i]))
                  ELSE 0
    IN  IF t = <<"i", "n", "f">> THEN [kind |-> "inf"]
        ELSE IF t = <<"n", "a", "n">> THEN [kind |-> "nan"]
        ELSE IF /\ \A i \in 1..Len(t) : IsDigit(t[i]) \/ IsPoint(t[i])
                /\ Len(SelectSeq(t, IsPoint)) <= 1
                /\ digs # << >>
          THEN Decimal(DigitsToInt(digs), frac)
        ELSE [kind |-> "ValueError"]

\* int(s), for the modelled texts: digits only, at least one.
int(s) ==
    LET t == strip(s)
    IN  IF t # << >> /\ \A i \in 1..Len(t) : IsDigit(t[i])
          THEN [kind |-> "int", value |-> DigitsToInt(t)]
          ELSE [kind |-> "ValueError"]

\* The products float(prefix) * multiplier, as <<digits, decimals, multiplier>>,
\* of the texts of up to four characters over InputChars whose exact value lies
\* halfway between two integers while the double the code computes does not
\* (8.7 * 225 is 1957.4999999999998): round() then yields the odd neighbour.
InexactTies ==
    { <<87, 1, 225>>, <<181, 1, 225>>, <<711, 1, 225>>, <<878, 2, 225>>,
      <<51, 3, 4500>>, <<71, 3, 4500>>, <<101, 3, 4500>>, <<557, 3, 4500>>,
      <<815, 3, 4500>> }

\* The powers of ten common to the multiplier and to 10^decimals, cancelled.
RECURSIVE Cancel(_, _, _)
Cancel(digits, decimals, m) ==
    IF decimals > 0 /\ m % 10 = 0 THEN Cancel(digits, decimals - 1, m \div 10)
    ELSE [digits |-> digits, decimals |-> decimals, m |-> m]

\* round(x * m) with x = digits / 10^decimals: Python rounds the double to the
\* nearest integer, a double halfway between two integers to the even one.
round(digits, decimals, m) ==
    LET c == Cancel(digits, decimals, m)
        unit == Pow10(c.decimals)
        q == (c.digits * c.m) \div unit
        r == (c.digits * c.m) % unit
        even == IF q % 2 = 0 THEN q ELSE q + 1
        odd == IF q % 2 = 0 THEN q + 1 ELSE q
    IN  IF c.decimals = 0
          THEN LET mm == Number(c.m, 0) IN Number(c.digits * mm.mant, mm.exp)
        ELSE IF 2 * r < unit THEN Number(q, 0)
        ELSE IF 2 * r > unit THEN Number(q + 1, 0)
        ELSE IF <<digits, decimals, m>> \in InexactTies THEN Number(odd, 0)
        ELSE Number(even, 0)

\* How the evaluation of an expression ends.
Returned(v) == [kind |-> "value", value |-> v]

Raised(e) == [kind |-> "raised", exc |-> e]

\* The result of a call: how it ended, the warnings it logged, the exceptions
\* it caught.
Outcome(r, w, c) == [ret |-> r, warnings |-> w, caught |-> c]

\* round(float(body) * m): float raises ValueError on a text that is no number,
\* round raises ValueError on nan and OverflowError on an infinity.
RoundOf(body, m) ==
    LET x == float(body)
    IN  CASE x.kind = "finite" -> Returned(round(x.digits, x.decimals, m))
          [] x.kind = "inf" -> Raised("OverflowError")
          [] OTHER -> Raised("ValueError")

Crore == <<"C", "r", "o", "r", "e">>

Lakh == <<"L", "a", "k", "h">>

Million == <<"M", "i", "l", "l", "i", "o", "n">>

Arab == <<"A", "r", "a", "b">>

Thousand == <<"T", "h", "o", "u", "s", "a", "n", "d">>

Marla == <<"M", "a", "r", "l", "a">>

Kanal == <<"K", "a", "n", "a", "l">>

SqYd == <<"S", "q", ".", " ", "Y", "d", ".">>

SqFt == <<"S", "q", ".", " ", "F", "t", ".">>

\* The price of one unit of each suffix, cheapest first.
price_units_shifted ==
    << [suffix |-> Crore, multiplier |-> 1000000],
       [suffix |-> Lakh, multiplier |-> 10000],
       [suffix |-> Million, multiplier |-> 100000],
       [suffix |-> Arab, multiplier |-> 100000000],
       [suffix |-> Thousand, multiplier |-> 100] >>

\* Lines 199-208: the suffixes of convert_price in the order of the elif chain.
price_units ==
    << [suffix |-> Crore, multiplier |-> 10000000],
       [suffix |-> Lakh, multiplier |-> 100000],
       [suffix |-> Million, multiplier |-> 1000000],
       [suffix |-> Arab, multiplier |-> 1000000000],
       [suffix |-> Thousand, multiplier |-> 1000] >>

\* Lines 231-238: the suffixes of convert_size in the order of the elif chain.
size_units ==
    << [suffix |-> Marla, multiplier |-> 225],
       [suffix |-> Kanal, multiplier |-> 4500],
       [suffix |-> SqYd, multiplier |-> 9],
       [suffix |-> SqFt, multiplier |-> 1] >>

\* The try block of convert_price and convert_size: the first unit whose suffix
\* ends the stripped text converts its prefix (stripped, then without commas);
\* without such a unit the whole text without commas is the number.
Converted(s, units) ==
    LET matching == {i \in 1..Len(units) : endswith(s, units[i].suffix)}
    IN  IF matching = {} THEN RoundOf(remove_commas(s), 1)
        ELSE LET u == units[CHOOSE i \in matching : \A j \in matching : i <= j]
             IN  RoundOf(remove_commas(strip(DropLast(s, Len(u.suffix)))),
                         u.multiplier)

\* Lines 212-214 and 242-244: except (ValueError, TypeError) logs a warning and
\* returns 0; any other exception leaves the function.
Guarded(attempt, warning) ==
    IF attempt.kind = "raised" /\ attempt.exc \in {"ValueError", "TypeError"}
      THEN Outcome(Returned(Zero), <<warning>>, <<attempt.exc>>)
      ELSE Outcome(attempt, << >>, << >>)

\* Lines 185-214.
convert_price(price) ==
    IF price = << >> THEN Outcome(Returned(Zero), << >>, << >>)
    ELSE Guarded(Converted(strip(price), price_units), "Error converting price")

\* Lines 217-244.
convert_size(size) ==
    IF size = << >> THEN Outcome(Returned(Zero), << >>, << >>)
    ELSE Guarded(Converted(strip(size), size_units), "Error converting size")

\* What select_one gives: None, or a tag with its text.
None == [found |-> FALSE, text |-> << >>]

Tag(t) == [found |-> TRUE, text |-> t]

\* Lines 258-261: int(tag.text.strip()); a ValueError is caught and 0 returned,
\* and nothing is logged.
to_int(s) ==
    LET n == int(s)
    IN  IF n.kind = "int" THEN Outcome(Returned(n.value), << >>, << >>)
        ELSE Outcome(Returned(0), << >>, <<"ValueError">>)

\* Lines 247-273.
text(tag, datatype) ==
    CASE datatype = "num" ->
            IF ~tag.found THEN Outcome(Returned(0), << >>, << >>)
            ELSE to_int(strip(tag.text))
      [] datatype = "str" ->
            IF ~tag.found THEN Outcome(Returned(<< >>), << >>, << >>)
            ELSE Outcome(Returned(strip(tag.text)), << >>, << >>)
      [] datatype = "price" ->
            IF ~tag.found THEN Outcome(Returned(Zero), << >>, << >>)
            ELSE convert_price(strip(tag.text))
      [] datatype = "size" ->
            IF ~tag.found THEN Outcome(Returned(Zero), << >>, << >>)
            ELSE convert_size(strip(tag.text))

(* ---------------- field functions: one listing (276-309, 378-412) ------ *)

\* Lines 283-302: the three optional features, "" for an element not found.
\* text with datatype "str" raises nothing, so the handler of 303-309 stays idle.
extract_additional_features(house) ==
    [property_type |-> text(house.property_type, "str").ret.value,
     date_added |-> text(house.date_added, "str").ret.value,
     listing_id |-> text(house.reference, "str").ret.value]

\* The handler of lines 409-412: the listing is dropped, a warning logged.
Dropped(w, c, e) ==
    Outcome(Returned(<< >>), w \o <<"Error processing house listing">>, c \o <<e>>)

\* Lines 378-412, the body of the loop over the listing nodes: the records it
\* appends to house_info (one or none). A house is the tags the selectors find:
\* size2 is what the secondary size selector finds under location.parent.
listing(house) ==
    IF ~house.price.found THEN Outcome(Returned(<< >>), << >>, << >>)
    ELSE IF ~house.size.found /\ ~house.location.found
      THEN Dropped(<< >>, << >>, "AttributeError")
    ELSE
      LET size == IF house.size.found THEN house.size ELSE house.size2
          extra == extract_additional_features(house)
          location == text(house.location, "str")
          price == text(house.price, "price")
          bedrooms == text(house.beds, "num")
          baths == text(house.baths, "num")
          sz == text(size, "size")
          w == price.warnings \o bedrooms.warnings \o baths.warnings
          c == price.caught \o bedrooms.caught \o baths.caught
      IN  IF price.ret.kind = "raised"
            THEN Dropped(price.warnings, price.caught, price.ret.exc)
          ELSE IF sz.ret.kind = "raised"
            THEN Dropped(w, c, sz.ret.exc)
          ELSE Outcome(
                 Returned(<< [location |-> location.ret.value,
                              price |-> price.ret.value,
                              bedrooms |-> bedrooms.ret.value,
                              baths |-> baths.ret.value,
                              size |-> sz.ret.value,
                              property_type |-> extra.property_type,
                              date_added |-> extra.date_added,
                              original_listing_id |-> extra.listing_id] >>),
                 w \o sz.warnings, c \o sz.caught)

(* ------------------- the field functions on their own ------------------ *)

\* The numeric parts of the texts: every text of up to MaxPrefixLen characters
\* over InputChars, and the two non-finite numerals.
Prefixes ==
    UNION {[1..n -> InputChars] : n \in 0..MaxPrefixLen}
        \cup {<<"i", "n", "f">>, <<"n", "a", "n">>}

Separators == {<< >>, <<" ">>}

\* No unit, the units of convert_price, and two unit names it does not know.
PriceSuffixes ==
    {<< >>, Crore, Lakh, Million, Arab, Thousand,
     <<"c", "r", "o", "r", "e">>, <<"L", "a", "c">>}

\* No unit, the units of convert_size, and two unit names it does not know.
SizeSuffixes ==
    {<< >>, Marla, Kanal, SqYd, SqFt,
     <<"m", "a", "r", "l", "a">>, <<"S", "q", ".", "F", "t", ".">>}

PriceTexts == {p \o sep \o u : p \in Prefixes, sep \in Separators, u \in PriceSuffixes}

SizeTexts == {p \o sep \o u : p \in Prefixes, sep \in Separators, u \in SizeSuffixes}

Datatypes == {"num", "str", "price", "size"}

\* The listing nodes: each selector finds nothing or an element.
Houses ==
    [price : {None, Tag(<<"1", " ">> \o Crore), Tag(<<"i", "n", "f">>)},
     location : {None, Tag(<<"D", "H", "A">>)},
     beds : {None, Tag(<<"5">>), Tag(<<"x">>)},
     baths : {None, Tag(<<"1">>)},
     size : {None, Tag(<<"5", " ">> \o Marla)},
     size2 : {None, Tag(<<"1", " ">> \o Kanal)},
     property_type : {None, Tag(<<"H", "o", "u", "s", "e">>)},
     date_added : {None, Tag(<<"1", " ", "d", "a", "y">>)},
     reference : {None, Tag(<<"I", "D", "7">>)}]

\* The calls of the field functions: the function and its arguments.
Calls ==
    [fn : {"convert_price"}, arg : PriceTexts, datatype : {"price"}]
        \cup [fn : {"convert_size"}, arg : SizeTexts, datatype : {"size"}]
        \cup [fn : {"text"}, arg : {None} \cup {Tag(t) : t \in Prefixes},
              datatype : Datatypes]

\* One call of a field function on one argument, outside a run.
FieldInit ==
    /\ pc = "start"
    /\ connection_string = FALSE
    /\ max_pages = 0
    /\ scraper_delay = 1
    /\ run_metadata = [status |-> "none"]
    /\ blobs = EmptyMap
    /\ city = 0
    /\ total_listings = 0
    /\ city_stats = EmptyMap
    /\ city_data = << >>
    /\ page_number = 0
    /\ consecutive_errors = 0
    /\ house_info = << >>
    /\ outcome = NoOutcome
    /\ io = << >>
    /\ log = << >>
    /\ served = 0
    /\ exc = "none"
    /\ init_failure = "none"
    /\ \/ call \in Calls
       \/ call \in [fn : {"listing"}, arg : Houses, datatype : {"house"}]
    /\ ret = Pending
    /\ warnings = << >>
    /\ caught = << >>

\* The call runs to its end.
Ends(o) ==
    /\ ret = Pending
    /\ ret' = o.ret
    /\ warnings' = o.warnings
    /\ caught' = o.caught
    /\ UNCHANGED <<pc, envVars, runVars, scrapVars, exc, init_failure, call>>

CallConvertPrice == call.fn = "convert_price" /\ Ends(convert_price(call.arg))

CallConvertSize == call.fn = "convert_size" /\ Ends(convert_size(call.arg))

CallText == call.fn = "text" /\ Ends(text(call.arg, call.datatype))

CallListing == call.fn = "listing" /\ Ends(listing(call.arg))

FieldNext ==
    \/ CallConvertPrice
    \/ CallConvertSize
    \/ CallText
    \/ CallListing

FieldSpec == FieldInit /\ [][FieldNext]_vars

(* ------------------------- history operators --------------------------- *)

\* The number of failed fetches at the end of a history.
RECURSIVE TrailingFailures(_)
TrailingFailures(l) ==
    IF l = << >> \/ l[Len(l)].result # "failed" THEN 0
    ELSE 1 + TrailingFailures(SubSeq(l, 1, Len(l) - 1))

\* The records of one parsed page, in node order.
RECURSIVE PageRecords(_, _, _)
PageRecords(nodes, page, i) ==
    IF i > Len(nodes) THEN << >>
    ELSE (IF Extractable(nodes[i]) THEN << [page |-> page, node |-> i] >> ELSE << >>)
           \o PageRecords(nodes, page, i + 1)

\* The records of the parsed pages of a history, in page order.
RECURSIVE ExpectedRecords(_)
ExpectedRecords(l) ==
    IF l = << >> THEN << >>
    ELSE ExpectedRecords(SubSeq(l, 1, Len(l) - 1))
           \o (IF l[Len(l)].result = "Parsed"
                 THEN PageRecords(l[Len(l)].nodes, l[Len(l)].page, 1) ELSE << >>)

\* The sum of listings_count over the entries of a city_stats map; an entry
\* without the field counts 0.
RECURSIVE SumListingsCount(_)
SumListingsCount(stats) ==
    IF DOMAIN stats = {} THEN 0
    ELSE LET c == CHOOSE x \in DOMAIN stats : TRUE
             rest == [x \in DOMAIN stats \ {c} |-> stats[x]]
         IN  (IF "listings_count" \in DOMAIN stats[c] THEN stats[c].listings_count ELSE 0)
               + SumListingsCount(rest)

(* ------------------------------- claims -------------------------------- *)

\* C1: once three consecutive fetches of a city have failed, no further page
\* of that city is fetched, and the value scrap then returns holds every
\* listing of the pages parsed before; three failures from page 1 on give an
\* empty result after exactly three fetches.
C1_BreakerHaltsPagination ==
    /\ \A i \in 1..Len(log) :
          (i >= 3 /\ \A j \in (i - 2)..i : log[j].result = "failed") => i = Len(log)
    /\ (pc = "city_result" /\ TrailingFailures(log) >= 3)
          => city_data = ExpectedRecords(log)
    /\ (pc = "city_result" /\ Len(log) >= 3
          /\ (\A j \in 1..Len(log) : log[j].result = "failed"))
          => (city_data = << >> /\ Len(log) = 3)

\* The breaker tripped with listings accumulated and pages left to fetch.
C1_Witness ==
    /\ pc = "city_result"
    /\ TrailingFailures(log) = 3
    /\ Len(log) < max_pages
    /\ city_data # << >>

\* C2: an exception while a city is processed (from scrap or from an upload of
\* its payload) is recorded as that city's error and the loop goes on to the
\* next city; the stats entries and payload blobs of the cities recorded
\* before never change; a run that passed initialisation ends with an entry
\* for every city.
C2_CityIsolation ==
    /\ [][ /\ \A c \in DOMAIN city_stats :
                /\ c \in DOMAIN city_stats'
                /\ city_stats'[c] = city_stats[c]
                /\ \A b \in {JsonBlob(c), CsvBlob(c)} :
                      /\ (b \in DOMAIN blobs) = (b \in DOMAIN blobs')
                      /\ b \in DOMAIN blobs => blobs'[b] = blobs[b]
           /\ pc = "city_except"
                => /\ pc' = "city_loop"
                   /\ city' = city + 1
                   /\ city_stats'[cities[city]].status = "error" ]_vars
    /\ [](pc \in {"done", "raised"} /\ init_failure = "none"
            => DOMAIN city_stats = {cities[k] : k \in 1..Len(cities)})
    /\ [](pc \in {"city_loop", "scrap", "scrap_return", "city_result", "city_except"}
            => ENABLED Next)

\* A run that ended with the first city recorded, the second failed and the
\* third processed after it.
C2_Witness ==
    /\ pc = "done"
    /\ city_stats[cities[1]].status = "success"
    /\ city_stats[cities[2]].status = "error"
    /\ city_stats[cities[3]].status = "success"
    /\ JsonBlob(cities[1]) \in DOMAIN blobs

\* C3: after every city iteration and in the final run_metadata,
\* total_listings is the sum of listings_count over city_stats.
C3_TotalIsSumOfCounts ==
    /\ pc = "city_loop" => total_listings = SumListingsCount(city_stats)
    /\ run_metadata.status = "completed"
         => run_metadata.total_listings = SumListingsCount(run_metadata.city_stats)

\* C4: a parsed page that leaves the accumulator as long as it was is the
\* last page fetched: the loop is left, no later page is fetched, and scrap
\* returns the accumulator unchanged.
C4_StopWhenNoNewListings ==
    /\ \A k \in 1..Len(log) :
          (log[k].result = "Parsed"
             /\ \A r \in 1..Len(house_info) : house_info[r].page # log[k].page)
            => (k = Len(log) /\ pc # "scrap")
    /\ pc = "city_result" => city_data = house_info

\* A page whose nodes all failed extraction or lacked a price stopped the
\* pagination with listings accumulated and pages left.
C4_Witness ==
    /\ pc = "city_result"
    /\ outcome = [kind |-> "Parsed", nodes |-> <<Broken, NoPrice>>]
    /\ Len(log) < max_pages
    /\ city_data # << >>
    /\ city_data = house_info

\* C5: a fetch that finds no listing node ends the pagination at once and
\* changes neither consecutive_errors nor the accumulator.
C5_StopOnEmpty ==
    /\ [][ (Len(log') = Len(log) + 1 /\ log'[Len(log')].result = "Empty")
             => /\ pc' = "scrap_return"
                /\ consecutive_errors' = consecutive_errors
                /\ house_info' = house_info ]_vars
    /\ [](\A k \in 1..Len(log) :
            log[k].result = "Empty" => (k = Len(log) /\ pc # "scrap"))

\* An empty page after a parsed page and two failed fetches, with pages left.
C5_Witness ==
    /\ pc = "city_result"
    /\ outcome.kind = "Empty"
    /\ consecutive_errors = 2
    /\ city_data # << >>
    /\ Len(log) < max_pages

\* C6: the accumulator, and the value scrap returns, is the concatenation in
\* page order of the records of the parsed pages, each page's records in node
\* order.
C6_ResultIsConcatenation ==
    /\ pc \in {"scrap", "scrap_return", "city_result"} => house_info = ExpectedRecords(log)
    /\ pc = "city_result" => city_data = ExpectedRecords(log)

\* Page 1 parsed with two listings, page 2 empty: two records after two fetches.
C6_Witness ==
    /\ pc = "city_result"
    /\ Len(log) = 2
    /\ log[1].result = "Parsed"
    /\ log[1].nodes = <<Good, Good>>
    /\ log[2].result = "Empty"
    /\ city_data = << [page |-> 1, node |-> 1], [page |-> 1, node |-> 2] >>

\* The city whose loop iteration has just ended.
LastCity == cities[city - 1]

\* C7, as stated: a city is recorded as error only if an exception was raised
\* while it was processed, and as no_data only if it produced no listing and
\* met no error, a failed fetch or a breaker trip included.
C7_StatusExcludesFetchErrors ==
    (pc = "city_loop" /\ city > 1)
      => /\ city_stats[LastCity].status = "error" => exc # "none"
         /\ city_stats[LastCity].status = "no_data"
              => /\ city_data = << >>
                 /\ exc = "none"
                 /\ \A k \in 1..Len(log) : log[k].result # "failed"

\* C7, amended: a city is recorded as error only if an exception was raised
\* while it was processed, and as no_data only if scrap returned no listing
\* and no exception was raised; the failed fetches scrap absorbs do not count.
C7_StatusReflectsExceptions ==
    (pc = "city_loop" /\ city > 1)
      => /\ city_stats[LastCity].status = "error" => exc # "none"
         /\ city_stats[LastCity].status = "no_data"
              => (city_data = << >> /\ exc = "none")

\* A city whose three fetches all failed is recorded as no_data.
C7_Witness ==
    /\ pc = "city_loop"
    /\ city > 1
    /\ city_stats[LastCity].status = "no_data"
    /\ consecutive_errors = 3
    /\ Len(log) = 3

\* C8: when sink initialisation fails (no connection string, a client that
\* cannot be built, a failed upload of the initial metadata or of the
\* header), the run stops there: no page is fetched and no city is recorded.
C8_SinkFailureIsFatal ==
    init_failure # "none"
      => /\ pc \in {"returned", "raised"}
         /\ city = 0
         /\ log = << >>
         /\ page_number = 0
         /\ served = 0
         /\ city_stats = EmptyMap
         /\ run_metadata.status # "completed"

\* The upload of the initial metadata failed.
C8_Witness ==
    /\ init_failure = "metadata"
    /\ pc = "raised"
    /\ run_metadata.status = "in_progress"
    /\ blobs = EmptyMap

\* C9: a call of scrap fetches at most max_pages pages, never more than
\* max_consecutive_errors failed fetches in a row, and every step of the page
\* loop either leaves the loop or moves to the next page, so the loop ends.
C9_ScrapTerminates ==
    /\ [][ pc = "scrap" => (pc' # "scrap" \/ page_number' = page_number + 1) ]_vars
    /\ [][ pc = "scrap_return" => pc' = "city_result" ]_vars
    /\ [](/\ Len(log) <= max_pages
          /\ page_number <= max_pages
          /\ TrailingFailures(log) <= max_consecutive_errors
          /\ ((\A k \in 1..Len(log) : log[k].result = "failed")
                => Len(log) <= max_consecutive_errors)
          /\ (pc \in {"scrap", "scrap_return"} => ENABLED Next))

\* scrap returned after fetching every page of the range.
C9_Witness ==
    /\ pc = "city_result"
    /\ max_pages = MaxPagesBound
    /\ Len(log) = max_pages
    /\ outcome.kind \in FailureKinds

\* C10: when the extraction of a listing node raises, that node alone gives no
\* record: the other nodes of the page give theirs, consecutive_errors is
\* reset like after any parsed page, and no penalty sleep is taken.
C10_ListingFailureAbsorbed ==
    [][ (/\ Len(log') = Len(log) + 1
         /\ outcome'.kind = "Parsed"
         /\ \E i \in 1..Len(outcome'.nodes) : ListingRaises(outcome'.nodes[i]))
          => /\ house_info' = house_info
                  \o PageRecords(outcome'.nodes, page_number', 1)
             /\ \A i \in 1..Len(outcome'.nodes) :
                   (outcome'.nodes[i].price /\ ~ListingRaises(outcome'.nodes[i]))
                     => \E r \in 1..Len(house_info') :
                           house_info'[r] = [page |-> page_number', node |-> i]
             /\ consecutive_errors' = 0
             /\ io' = <<"delay", "get">> ]_vars

\* After two failed fetches, a page whose first node raised gave the record
\* of its second node.
C10_Witness ==
    /\ pc = "scrap"
    /\ outcome = [kind |-> "Parsed", nodes |-> <<Broken, Good>>]
    /\ Len(log) = 3
    /\ log[2].result = "failed"
    /\ house_info = << [page |-> 3, node |-> 2] >>
    /\ consecutive_errors = 0
    /\ io = <<"delay", "get">>

(* ------------------------ claims on the field functions ---------------- *)

\* The call under evaluation has ended.
Ended == ret.kind # "pending"

\* The value text gives for an element that is not found.
DefaultWhenAbsent(tag, value, default) == ~tag.found => value = default

\* C11: price is the only mandatory field of a listing: a listing node with a
\* price element yields one record whichever other elements are absent, each
\* absent field "" or 0 in it, and a node without a price element yields none.
C11_PriceOnlyMandatoryField ==
    (call.fn = "listing" /\ Ended) =>
        IF call.arg.price.found
          THEN /\ ret.kind = "value"
               /\ Len(ret.value) = 1
               /\ LET r == ret.value[1]
                      h == call.arg
                  IN  /\ DefaultWhenAbsent(h.location, r.location, << >>)
                      /\ DefaultWhenAbsent(h.beds, r.bedrooms, 0)
                      /\ DefaultWhenAbsent(h.baths, r.baths, 0)
                      /\ (~h.size.found /\ ~h.size2.found) => r.size = Zero
                      /\ DefaultWhenAbsent(h.property_type, r.property_type, << >>)
                      /\ DefaultWhenAbsent(h.date_added, r.date_added, << >>)
                      /\ DefaultWhenAbsent(h.reference, r.original_listing_id, << >>)
          ELSE ret = Returned(<< >>)

\* C12: convert_price and convert_size are total: on every text the call
\* returns a number and raises nothing, and a call that caught a parse failure
\* returns 0 and has logged a warning.
C12_ConvertersAreTotal ==
    (call.fn \in {"convert_price", "convert_size"} /\ Ended) =>
        /\ ret.kind = "value"
        /\ ret.value.mant \in Nat
        /\ caught # << >> => (ret.value = Zero /\ warnings # << >>)

\* The units the claim lists for each function.
ClaimedUnits(fn) ==
    IF fn = "convert_price"
      THEN << [suffix |-> Crore, multiplier |-> 10000000],
              [suffix |-> Lakh, multiplier |-> 100000],
              [suffix |-> Million, multiplier |-> 1000000],
              [suffix |-> Arab, multiplier |-> 1000000000],
              [suffix |-> Thousand, multiplier |-> 1000],
              [suffix |-> << >>, multiplier |-> 1] >>
      ELSE << [suffix |-> Marla, multiplier |-> 225],
              [suffix |-> Kanal, multiplier |-> 4500],
              [suffix |-> SqYd, multiplier |-> 9],
              [suffix |-> SqFt, multiplier |-> 1],
              [suffix |-> << >>, multiplier |-> 1] >>

\* u is the unit of the stripped text s: s ends with the suffix of u, and, when
\* u is the entry without suffix, with no suffix of another entry.
UnitApplies(s, u, units) ==
    /\ endswith(s, u.suffix)
    /\ u.suffix = << >> =>
          \A j \in 1..Len(units) :
              units[j].suffix # << >> => ~endswith(s, units[j].suffix)

\* The number the text s carries before the suffix of u, commas removed.
PrefixValue(s, u) == float(remove_commas(strip(DropLast(s, Len(u.suffix)))))

\* The integer a result denotes, for results below 2^31.
IntOf(v) == v.mant * Pow10(v.exp)

\* v is an integer nearest to x * m.
IsNearest(v, x, m) ==
    LET c == Cancel(x.digits, x.decimals, m)
        unit == Pow10(c.decimals)
    IN  IF c.decimals = 0
          THEN LET mm == Number(c.m, 0) IN v = Number(c.digits * mm.mant, mm.exp)
          ELSE LET d == IntOf(v) * unit - c.digits * c.m
               IN  2 * d <= unit /\ 2 * (0 - d) <= unit

\* x * m lies halfway between two integers.
IsHalfway(x, m) ==
    LET c == Cancel(x.digits, x.decimals, m)
    IN  c.decimals > 0 /\ 2 * ((c.digits * c.m) % Pow10(c.decimals)) = Pow10(c.decimals)

\* v is round(x * m) of the exact product: the nearest integer, the even one
\* of the two when x * m lies halfway.
IsExactRound(v, x, m) ==
    /\ IsNearest(v, x, m)
    /\ IsHalfway(x, m) => IntOf(v) % 2 = 0

\* A call of one of the two conversions on a text that carries a number before
\* a unit of the claim's table has returned.
ConvertedUnit(u) ==
    /\ call.fn \in {"convert_price", "convert_size"}
    /\ Ended
    /\ UnitApplies(strip(call.arg), u, ClaimedUnits(call.fn))
    /\ PrefixValue(strip(call.arg), u).kind = "finite"

OtherSpellings ==
    {<<"c", "r", "o", "r", "e">>, <<"L", "a", "c">>,
     <<"m", "a", "r", "l", "a">>, <<"S", "q", ".", "F", "t", ".">>}

C15_NoSilentAbsorption ==
    (call.fn # "none" /\ Ended) => Len(warnings) >= Len(caught)

(* ----------------------- claims on the run, continued ------------------ *)

\* The run has passed initialisation and has not ended.
Running == pc \in {"city_loop", "scrap", "scrap_return", "city_result", "city_except"}

\* A bound on the steps a running run has left: the cities to come, each with
\* its pages and the steps around them, and the rest of the current city.
StepsLeft ==
    IF ~Running THEN 0
    ELSE (Len(cities) + 1 - city) * (max_pages + 6)
           + (CASE pc = "city_loop" -> max_pages + 5
                [] pc = "scrap" -> max_pages - page_number + 4
                [] pc = "scrap_return" -> 3
                [] pc = "city_result" -> 2
                [] OTHER -> 1)

\* The metadata blob holds the completed metadata.
CompletedPersisted ==
    "run_metadata.json" \in DOMAIN blobs /\ blobs["run_metadata.json"] = "completed"

\* C14: the run metadata is persisted as in_progress before the first fetch
\* and stays so while cities are processed; it is completed, in memory and in
\* the store, only once every city has its entry, with the totals and these
\* entries; completed never goes back; and a run that has passed
\* initialisation always moves on, in a bounded number of steps, to the write
\* of the completed metadata, whatever the fetches and the cities did.
C14_MetadataLifecycle ==
    /\ []((Running \/ Len(log) > 0)
            => ("run_metadata.json" \in DOMAIN blobs /\ city >= 1))
    /\ [](Running => (run_metadata.status = "in_progress" /\ ~CompletedPersisted))
    /\ []((run_metadata.status = "completed" \/ CompletedPersisted)
            => /\ city = Len(cities) + 1
               /\ DOMAIN city_stats = {cities[i] : i \in 1..Len(cities)}
               /\ run_metadata.status = "completed"
               /\ run_metadata.total_listings = total_listings
               /\ run_metadata.city_stats = city_stats)
    /\ [][ run_metadata.status = "completed" => run_metadata'.status = "completed" ]_vars
    /\ [][ CompletedPersisted => CompletedPersisted' ]_vars
    /\ [][ Running => StepsLeft' < StepsLeft ]_vars
    /\ [](Running => ENABLED Next)
    /\ []((pc \in {"done", "raised"} /\ init_failure = "none")
            => run_metadata.status = "completed")

\* The run ended with the completed metadata stored although one city failed
\* with an exception and another one gave no data.
C14_Witness ==
    /\ pc = "done"
    /\ CompletedPersisted
    /\ \E a, b \in DOMAIN city_stats :
          city_stats[a].status = "error" /\ city_stats[b].status = "no_data"

\* The step fetched a page: the history has one more entry.
Fetched == Len(log') = Len(log) + 1

\* The step is the break of lines 335-338: the loop is left at its head, after
\* the range gave one more page number.
BreakerTripped ==
    /\ pc = "scrap"
    /\ pc' = "scrap_return"
    /\ page_number' = page_number + 1
    /\ log' = log

\* C16: a TransportError on page N adds exactly 1 to consecutive_errors, is
\* followed by the penalty sleep (delay * 3) and leaves the accumulator alone;
\* an InvalidResponse adds exactly 1 and is followed by no sleep; in both cases
\* the loop goes on, and the fetch after a fetch of page N is always the fetch
\* of page N + 1, so no page is retried.
C16_FailureHandlingPerOutcome ==
    /\ [][ (Fetched /\ outcome'.kind = "TransportError")
             => /\ consecutive_errors' = consecutive_errors + 1
                /\ io' = <<"delay", "get", "penalty">>
                /\ house_info' = house_info
                /\ page_number' = page_number + 1
                /\ pc' = "scrap" ]_vars
    /\ [][ (Fetched /\ outcome'.kind = "InvalidResponse")
             => /\ consecutive_errors' = consecutive_errors + 1
                /\ io' = <<"delay", "get">>
                /\ house_info' = house_info
                /\ page_number' = page_number + 1
                /\ pc' = "scrap" ]_vars
    /\ [][ Fetched
             => /\ log'[Len(log')].page = page_number'
                /\ log # << >> => log'[Len(log')].page = log[Len(log)].page + 1 ]_vars

\* Page 1 met a transport error and page 2, fetched next, an invalid response.
C16_Witness ==
    /\ pc = "scrap"
    /\ Len(log) = 2
    /\ log[1] = [page |-> 1, result |-> "failed", nodes |-> << >>]
    /\ log[2] = [page |-> 2, result |-> "failed", nodes |-> << >>]
    /\ outcome.kind = "InvalidResponse"
    /\ io = <<"delay", "get">>
    /\ consecutive_errors = 2

\* The history has no three failed fetches in a row.
NoThreeFailuresInARow(l) ==
    \A k \in 3..Len(l) :
        \E j \in (k - 2)..k : l[j].result # "failed"

\* Every fetch of the history failed or was parsed and added a listing.
OnlyFailuresAndNewListings(l) ==
    \A k \in 1..Len(l) :
        \/ l[k].result = "failed"
        \/ /\ l[k].result = "Parsed"
           /\ \E i \in 1..Len(l[k].nodes) : Extractable(l[k].nodes[i])

\* C17: every parsed page sets consecutive_errors to 0, also one that adds no
\* listing; the breaker breaks the loop only when the three latest fetches all
\* failed; and failures separated by parsed pages that add listings, never
\* three in a row, do not end scrap before the last page of the range.
C17_BreakerReset ==
    /\ [][ (Fetched /\ outcome'.kind = "Parsed") => consecutive_errors' = 0 ]_vars
    /\ [][ BreakerTripped
             => /\ Len(log) >= max_consecutive_errors
                /\ \A k \in (Len(log) - 2)..Len(log) : log[k].result = "failed" ]_vars
    /\ [](pc = "scrap" => consecutive_errors = TrailingFailures(log))
    /\ []((/\ pc = "scrap_return"
           /\ OnlyFailuresAndNewListings(log)
           /\ NoThreeFailuresInARow(log))
            => Len(log) = max_pages)

\* scrap fetched all five pages of its range: two failures, a page with a
\* listing, two more failures.
C17_Witness ==
    /\ pc = "scrap_return"
    /\ max_pages = MaxPagesBound
    /\ Len(log) = max_pages
    /\ log[1].result = "failed"
    /\ log[2].result = "failed"
    /\ log[3].result = "Parsed"
    /\ Len(house_info) = 1
    /\ log[Len(log) - 1].result = "failed"
    /\ log[Len(log)].result = "failed"
    /\ consecutive_errors = 2

\* C18: every fetch is immediately preceded by the pre-request sleep of its
\* own loop iteration (delay * jitter): an iteration issues at most one GET,
\* with that sleep right before it, whatever the outcome, in every city.
C18_DelayBeforeEveryFetch ==
    /\ [][ Fetched
             => /\ Len(io') >= 2
                /\ io'[1] = "delay"
                /\ io'[2] = "get"
                /\ \A i \in 3..Len(io') : io'[i] # "get" ]_vars
    /\ [](\A i \in 1..Len(io) : io[i] = "get" => (i > 1 /\ io[i - 1] = "delay"))
    /\ [][ io' # io => (Fetched \/ io' = << >>) ]_vars

\* The first fetch of the second city, after a first city whose last fetch
\* failed, was preceded by its own sleep.
C18_Witness ==
    /\ city = 2
    /\ city_stats[cities[1]].status = "no_data"
    /\ Len(log) = 1
    /\ log[1].result = "failed"
    /\ io = <<"delay", "get", "penalty">>

\* The names of the first n configured cities.
FirstCities(n) == {cities[i] : i \in 1..n}

\* The payload blobs of a city.
PayloadBlobs(name) == {JsonBlob(name), CsvBlob(name)}

\* C19: the cities are processed once each, in list order: the entries of
\* city_stats are those of the cities before the current one. An empty result
\* is recorded as no_data with listings_count 0 and no payload blob of the
\* city is written; a non-empty result is recorded as success with
\* listings_count the length of the result, both payload blobs written with
\* that many listings; when the run ends every configured city has its entry.
C19_OutcomeMapping ==
    /\ []((Running \/ pc = "done")
            => /\ city \in 1..(Len(cities) + 1)
               /\ DOMAIN city_stats = FirstCities(city - 1))
    /\ [][ city' # city => (city' = city + 1 /\ city <= Len(cities)) \/ city = 0 ]_vars
    /\ [][ (pc = "city_loop" /\ pc' = "scrap") => CityName \notin DOMAIN city_stats ]_vars
    /\ [][ (pc = "city_result" /\ city_data = << >>)
             => /\ city_stats' = (CityName :> [status |-> "no_data", listings_count |-> 0])
                                   @@ city_stats
                /\ blobs' = blobs
                /\ PayloadBlobs(CityName) \cap DOMAIN blobs' = {}
                /\ pc' = "city_loop" ]_vars
    /\ [][ (pc = "city_result" /\ pc' = "city_loop" /\ city_data # << >>)
             => /\ city_stats' = (CityName :> [status |-> "success",
                                               listings_count |-> Len(city_data)])
                                   @@ city_stats
                /\ PayloadBlobs(CityName) \subseteq DOMAIN blobs'
                /\ \A b \in PayloadBlobs(CityName) : blobs'[b] = Len(city_data) ]_vars
    /\ [](\A name \in DOMAIN city_stats :
             /\ city_stats[name].status = "success"
                  => /\ PayloadBlobs(name) \subseteq DOMAIN blobs
                     /\ city_stats[name].listings_count > 0
             /\ city_stats[name].status = "no_data"
                  => PayloadBlobs(name) \cap DOMAIN blobs = {})
    /\ [](pc = "done" => DOMAIN city_stats = FirstCities(Len(cities)))

\* The run ended with a city recorded as success with two listings and another
\* one as no_data.
C19_Witness ==
    /\ pc = "done"
    /\ Cardinality(DOMAIN city_stats) = Len(cities)
    /\ \E a, b \in DOMAIN city_stats :
          /\ city_stats[a] = [status |-> "success", listings_count |-> 2]
          /\ blobs[JsonBlob(a)] = 2
          /\ blobs[CsvBlob(a)] = 2
          /\ city_stats[b] = [status |-> "no_data", listings_count |-> 0]

\* The pages of the history are 1, 2, 3, ... in this order.
PagesInOrder == \A k \in 1..Len(log) : log[k].page = k

\* C20, as claimed: consecutive_errors stays within 0..3; inside a call of
\* scrap it changes only by +1, on a failed fetch, or to 0, on a parsed page; a
\* page is fetched only with consecutive_errors < 3; and the pages fetched are
\* 1, 2, 3, ... with none skipped and none fetched twice.
C20_CounterChangesOnFetchOnly ==
    /\ [](consecutive_errors \in 0..max_consecutive_errors)
    /\ [][ (pc = "scrap" /\ consecutive_errors' # consecutive_errors)
             => \/ /\ consecutive_errors' = consecutive_errors + 1
                   /\ Fetched
                   /\ log'[Len(log')].result = "failed"
                \/ /\ consecutive_errors' = 0
                   /\ Fetched
                   /\ log'[Len(log')].result = "Parsed" ]_vars
    /\ [][ Fetched => consecutive_errors < max_consecutive_errors ]_vars
    /\ []PagesInOrder

\* C20, amended: consecutive_errors stays within 0..3; inside a call of scrap
\* it changes only by +1 or to 0: to 0 on a parsed page, by +1 on a failed
\* fetch or, with no fetch issued, when the pre-request sleep raises, and then
\* the exception of the second sleep ends the call; a page is fetched only
\* with consecutive_errors < 3; the pages fetched are 1, 2, 3, ... with none
\* skipped and none fetched twice.
C20_CounterInvariant ==
    /\ [](consecutive_errors \in 0..max_consecutive_errors)
    /\ [][ (pc = "scrap" /\ consecutive_errors' # consecutive_errors)
             => \/ /\ consecutive_errors' = consecutive_errors + 1
                   /\ Fetched
                   /\ log'[Len(log')].result = "failed"
                \/ /\ consecutive_errors' = consecutive_errors + 1
                   /\ scraper_delay < 0
                   /\ log' = log
                   /\ pc' = "city_except"
                \/ /\ consecutive_errors' = 0
                   /\ Fetched
                   /\ log'[Len(log')].result = "Parsed" ]_vars
    /\ [][ (pc = "scrap" /\ consecutive_errors' = consecutive_errors)
             => ~(Fetched /\ log'[Len(log')].result = "failed") ]_vars
    /\ [][ Fetched => (pc = "scrap" /\ consecutive_errors < max_consecutive_errors) ]_vars
    /\ []PagesInOrder

\* A parsed page reset the counter and three failed fetches took it to 3.
C20_Witness ==
    /\ consecutive_errors = max_consecutive_errors
    /\ Len(log) = 4
    /\ log[1].result = "Parsed"
    /\ log[4].page = 4
    /\ pc = "scrap"

====
